---- MODULE Spec2Model ----
(***************************************************************************)
(* State-machine model of scripts/fetch_mops.py: one poll of the MOPS      *)
(* listing, keyword matching, detail enrichment, the seen-keys ledger,     *)
(* the JSON/CSV outputs and the Telegram/LINE digest.                      *)
(*                                                                         *)
(* Python strings are TLA+ strings.  A Python/JSON value is a record       *)
(* [t, v, d]: t is the type tag, v the text of a str, d the entries of a   *)
(* dict (a function from field names to values).                           *)
(*                                                                         *)
(* The files and the digests sent are global; the locals of main() are     *)
(* kept per process.  Under Spec one process runs main() again and again,  *)
(* so runs never overlap.                                                  *)
(***************************************************************************)
EXTENDS Integers, Sequences, FiniteSets, TLC

\* ------------------------------------------------------------------ bounds
\* Longest upstream listing, and number of runs of main() in one behaviour.
MaxRows == 2
MaxRuns == 2
\* Longest subject, longest keyword list and largest key set the pure
\* functions are applied to on their own.
MaxSubject == 3
MaxKeywords == 2
MaxKeys == 3

\* --------------------------------------------------------- Python values
NoEntries == [k \in {} |-> k]
PyNone == [t |-> "None", v |-> "", d |-> NoEntries]
PyStr(s) == [t |-> "str", v |-> s, d |-> NoEntries]
PyDict(entries) == [t |-> "dict", v |-> "", d |-> entries]

\* isinstance(x, dict)
IsDict(x) == x.t = "dict"

\* bool(x) for the values used here: None, "" and {} are falsy
Truthy(x) ==
    CASE x.t = "None" -> FALSE
      [] x.t = "str" -> x.v # ""
      [] x.t = "dict" -> DOMAIN x.d # {}

\* dict.get(k): the entry, or None when the field is missing
Get(x, k) == IF k \in DOMAIN x.d THEN x.d[k] ELSE PyNone

\* str(x) / f"{x}" of None and of a str
Str(x) == IF x.t = "None" THEN "None" ELSE x.v

\* ----------------------------------------------------------------- text
At(s, i) == SubSeq(s, i, i)

\* the characters the model uses, in increasing code point order
CodePoints == "\t\n\r 12Nabcenox|"

Ord(c) == CHOOSE i \in 1..Len(CodePoints) : At(CodePoints, i) = c

\* Python's str < str: lexicographic by code point
RECURSIVE StrLess(_, _)
StrLess(a, b) ==
    IF b = "" THEN FALSE
    ELSE IF a = "" THEN TRUE
    ELSE IF At(a, 1) # At(b, 1) THEN Ord(At(a, 1)) < Ord(At(b, 1))
    ELSE StrLess(SubSeq(a, 2, Len(a)), SubSeq(b, 2, Len(b)))

\* sorted(set of str)
RECURSIVE Sorted(_)
Sorted(S) ==
    IF S = {} THEN <<>>
    ELSE LET m == CHOOSE x \in S : \A y \in S \ {x} : StrLess(x, y)
         IN <<m>> \o Sorted(S \ {m})

SeqToSet(q) == {q[j] : j \in 1..Len(q)}

\* \s of the re module, restricted to CodePoints
WhiteSpace == {" ", "\t", "\n", "\r"}

\* s.replace("\r\n", "\n").replace("\r", "\n")
RECURSIVE ReplaceCR(_)
ReplaceCR(s) ==
    IF s = "" THEN ""
    ELSE IF Len(s) >= 2 /\ SubSeq(s, 1, 2) = "\r\n"
         THEN "\n" \o ReplaceCR(SubSeq(s, 3, Len(s)))
    ELSE IF At(s, 1) = "\r" THEN "\n" \o ReplaceCR(SubSeq(s, 2, Len(s)))
    ELSE At(s, 1) \o ReplaceCR(SubSeq(s, 2, Len(s)))

\* re.sub(r"\s+", " ", s): every maximal run of whitespace becomes one space
RECURSIVE SubSpaces(_, _)
SubSpaces(s, inRun) ==
    IF s = "" THEN ""
    ELSE IF At(s, 1) \in WhiteSpace
         THEN (IF inRun THEN "" ELSE " ") \o SubSpaces(SubSeq(s, 2, Len(s)), TRUE)
    ELSE At(s, 1) \o SubSpaces(SubSeq(s, 2, Len(s)), FALSE)

\* str.strip()
RECURSIVE Strip(_)
Strip(s) ==
    IF s = "" THEN ""
    ELSE IF At(s, 1) \in WhiteSpace THEN Strip(SubSeq(s, 2, Len(s)))
    ELSE IF At(s, Len(s)) \in WhiteSpace THEN Strip(SubSeq(s, 1, Len(s) - 1))
    ELSE s

normalize_text(s) == Strip(SubSpaces(ReplaceCR(s), FALSE))

\* k in subject
Contains(subject, k) ==
    \E j \in 1..(Len(subject) - Len(k) + 1) : SubSeq(subject, j, j + Len(k) - 1) = k

\* variant: the loop stops at the first hit
match_keywordsFirst(subject, kws) ==
    LET hits == SelectSeq(kws, LAMBDA k : Contains(subject, k))
    IN IF hits = <<>> THEN <<>> ELSE <<hits[1]>>

match_keywords(subject, kws) == SelectSeq(kws, LAMBDA k : Contains(subject, k))

build_item_key(params) ==
    Str(Get(params, "enterDate")) \o "|" \o Str(Get(params, "marketKind")) \o "|"
        \o Str(Get(params, "companyId")) \o "|" \o Str(Get(params, "serialNumber"))


\* "|".join(hits), ",".join(hits)
RECURSIVE Join(_, _)
Join(sep, q) ==
    IF q = <<>> THEN ""
    ELSE IF Len(q) = 1 THEN q[1]
    ELSE q[1] \o sep \o Join(sep, Tail(q))

\* -------------------------------------------------------------- inputs
\* detail parameters of two announcements
Params1 ==
    PyDict([enterDate |-> PyStr("1"), marketKind |-> PyStr("a"),
            companyId |-> PyStr("1"), serialNumber |-> PyStr("1")])
Params2 ==
    PyDict([enterDate |-> PyStr("1"), marketKind |-> PyStr("a"),
            companyId |-> PyStr("1"), serialNumber |-> PyStr("2")])

\* the sixth field of a well-formed row: { apiName, parameters }
Meta(params) == PyDict([apiName |-> PyStr("x"), parameters |-> params])

\* a row that is a JSON array: date, time, company id, company name, subject, meta
ListRow(subject, meta) ==
    [isList |-> TRUE,
     f |-> <<PyStr("1"), PyStr("2"), PyStr("1"), PyStr(" n "), PyStr(subject), meta>>]

RowA == ListRow("a \n b", Meta(Params1))
RowNoHit == ListRow("c", Meta(Params1))
\* a row that is not a JSON array
RowNotList == [isList |-> FALSE, f |-> <<>>]
\* five fields only
RowShort == [isList |-> TRUE, f |-> SubSeq(ListRow("b", PyNone).f, 1, 5)]
\* one field more than the layout
RowLong == [isList |-> TRUE, f |-> Append(ListRow("b", Meta(Params2)).f, PyStr("x"))]
\* sixth field is a string
RowMetaNotDict == ListRow("b", PyStr("x"))
\* sixth field is a mapping without "parameters"
RowNoParams == ListRow("b", PyDict([apiName |-> PyStr("x")]))
\* "parameters" is a non-empty string
RowParamsStr == ListRow("b", Meta(PyStr("x")))

Rows ==
    {RowA, RowNoHit, RowNotList, RowShort, RowLong, RowMetaNotDict, RowNoParams,
     RowParamsStr}

\* every listing of at most MaxRows rows
Listings == UNION {[1..n -> Rows] : n \in 0..MaxRows}

\* keyword lists as load_keywords returns them (longest first)
KeywordLists == {<<>>, <<"a b", "b">>}

\* a file: kind "absent"; "ledger" (a document {"seen_keys": [...]}, keys the
\* sequence); "partial" (truncated by open(path, "w"), possibly with a prefix
\* of the document); "garbage" (not JSON); "emptyobj" (the JSON document {});
\* "array" (the JSON document [])
File(kind, keys) == [kind |-> kind, keys |-> keys]
AbsentFile == File("absent", <<>>)
PartialFile == File("partial", <<>>)

InitialStateFiles ==
    {AbsentFile, File("ledger", <<"1|a|1|1">>), File("garbage", <<>>),
     File("emptyobj", <<>>), File("array", <<>>)}

\* the keys a ledger document holds
FileKeys(file) == IF file.kind = "ledger" THEN SeqToSet(file.keys) ELSE {}

\* an output file: kind "none" (not written), "partial", "doc"
NoOutput == [kind |-> "none", run |-> 0, items |-> <<>>]
NoJson == [kind |-> "none", run |-> 0, items |-> <<>>, matched_count |-> 0, new_matched_count |-> 0]

\* ------------------------------------------------------------- constants
\* len(row) < 6
RowFields == 6
\* new_matched_items[:10]
DigestLimit == 10

\* --------------------------------------------------------------- state
Procs == {1, 2}

VARIABLES
    keywords,           \* load_keywords(args.keywords)
    listing,            \* upstream: the day's listing rows
    stateFile,          \* disk: args.state
    outJson,            \* disk: args.out_json
    outCsv,             \* disk: args.out_csv
    digests,            \* every digest handed to the notification channels, in order
    runNo,              \* number of runs of main() started
    prev,               \* the last run that reached the final print
    ledger0,            \* the keys of the state file before the first run
    pc,                 \* per process: position in main()
    run,                \* per process: number of its current run
    data,               \* per process: main's data
    seen_keys,          \* per process: main's seen_keys
    loaded,             \* per process: seen_keys as line 132 built it
    loadedFile,         \* per process: the state file as load_state read it
    i,                  \* per process: index of the next row of data
    matched_items,      \* per process
    new_matched_items,  \* per process
    detail_calls,       \* per process: rows the detail endpoint was called for
    telegram,           \* per process: "none", "skipped", "sent", "failed"
    line,               \* per process: "none", "skipped", "sent", "failed"
    raised,             \* per process: the call whose exception ended the run
    startDisk,          \* per process: the three files when the run started
    overlapped,         \* TRUE once a run started while another run was active
    fn                  \* the last call of a pure function on its own: input and result

disk == <<stateFile, outJson, outCsv>>
locals ==
    <<run, data, seen_keys, loaded, loadedFile, i, matched_items, new_matched_items,
      detail_calls, telegram, line, raised, startDisk>>
aux == <<overlapped, fn>>
vars == <<keywords, listing, disk, digests, runNo, prev, ledger0, pc, locals, aux>>

Resting == {"idle", "done", "aborted", "crashed"}

NoPrev == [status |-> "none", data |-> <<>>, keys |-> <<>>, state |-> AbsentFile]

\* no pure function has been called on its own
NoCall == [op |-> "none"]

Init ==
    /\ keywords \in KeywordLists
    /\ listing \in Listings
    /\ stateFile \in InitialStateFiles
    /\ outJson = NoJson
    /\ outCsv = NoOutput
    /\ digests = <<>>
    /\ runNo = 0
    /\ prev = NoPrev
    /\ ledger0 = FileKeys(stateFile)
    /\ pc = [p \in Procs |-> "idle"]
    /\ run = [p \in Procs |-> 0]
    /\ data = [p \in Procs |-> <<>>]
    /\ seen_keys = [p \in Procs |-> {}]
    /\ loaded = [p \in Procs |-> {}]
    /\ loadedFile = [p \in Procs |-> AbsentFile]
    /\ i = [p \in Procs |-> 1]
    /\ matched_items = [p \in Procs |-> <<>>]
    /\ new_matched_items = [p \in Procs |-> <<>>]
    /\ detail_calls = [p \in Procs |-> <<>>]
    /\ telegram = [p \in Procs |-> "none"]
    /\ line = [p \in Procs |-> "none"]
    /\ raised = [p \in Procs |-> "none"]
    /\ startDisk = [p \in Procs |-> <<stateFile, NoJson, NoOutput>>]
    /\ overlapped = FALSE
    /\ fn = NoCall

\* ------------------------------------------------------ row processing
\* variant: len(row) <= 6 rejects the six-field layout
ShapeOkStrict(row) == row.isList /\ Len(row.f) > RowFields

\* line 139: isinstance(row, list) and len(row) >= 6
ShapeOk(row) == row.isList /\ Len(row.f) >= RowFields

\* line 149
detail_meta(row) == IF IsDict(row.f[6]) THEN row.f[6] ELSE PyDict(NoEntries)

\* line 150: detail_meta.get("parameters") or {}
ParamsOf(row) ==
    LET g == Get(detail_meta(row), "parameters")
    IN IF Truthy(g) THEN g ELSE PyDict(NoEntries)

\* line 151
ParamsOk(row) == IsDict(ParamsOf(row))

Subject(row) == normalize_text(Str(row.f[5]))

\* lines 139-156: TRUE when the loop body reaches line 158 for this row
Accepted(row, kws) ==
    /\ ShapeOk(row)
    /\ ParamsOk(row)
    /\ match_keywords(Subject(row), kws) # <<>>

\* lines 163-174; src is the index of the row in data (not a field of the
\* program's item); fetched_at_tw is left out
MakeItem(row, idx, kws) ==
    [key |-> build_item_key(ParamsOf(row)),
     speech_date |-> normalize_text(Str(row.f[1])),
     speech_time |-> normalize_text(Str(row.f[2])),
     company_id |-> normalize_text(Str(row.f[3])),
     company_name |-> normalize_text(Str(row.f[4])),
     subject |-> Subject(row),
     matched_keywords |-> match_keywords(Subject(row), kws),
     detail_params |-> ParamsOf(row),
     detail |-> "detail",
     src |-> idx]

Keys(items) == [j \in 1..Len(items) |-> items[j].key]

\* variant: the key is also looked up among the items matched so far
SeenAtClassifyRunning(p) == seen_keys[p] \cup SeqToSet(Keys(matched_items[p]))

\* line 177: the set the key is looked up in is seen_keys, which the loop
\* never changes
SeenAtClassify(p) == seen_keys[p]

\* line 177
IsNew(key, seen) == key \notin seen

\* variant: the loop of lines 181-182 is missing
MergeSeenNone(seen, items) == seen

\* variant: seen_keys is rebuilt from this run's items alone
MergeSeenRunOnly(seen, items) == SeqToSet(Keys(items))

\* lines 181-182
MergeSeen(seen, items) == seen \cup SeqToSet(Keys(items))

\* ------------------------------------------------------------- ledger
\* load_state or line 132 raises: json.load on text that is not JSON, .get
\* on a list
LoadRaises(file) == file.kind \in {"partial", "garbage", "array"}

\* variant: another field than seen_keys is read
LoadedKeysWrongField(file) == {}

\* set(state.get("seen_keys", [])) when nothing raises
LoadedKeys(file) ==
    IF file.kind = "ledger" THEN SeqToSet(file.keys) ELSE {}

\* variant: the keys are left out of the document
LedgerDocEmpty(seen) == File("ledger", <<>>)

\* line 224: {"seen_keys": sorted(seen_keys)}
LedgerDoc(seen) == File("ledger", Sorted(seen))

\* lines 199-212
CsvRow(it) ==
    [key |-> it.key, speech_date |-> it.speech_date, speech_time |-> it.speech_time,
     company_id |-> it.company_id, company_name |-> it.company_name,
     subject |-> it.subject, matched_keywords |-> Join("|", it.matched_keywords),
     enterDate |-> Get(it.detail_params, "enterDate"),
     marketKind |-> Get(it.detail_params, "marketKind"),
     serialNumber |-> Get(it.detail_params, "serialNumber"),
     detail_json |-> it.detail, src |-> it.src]

\* lines 229-235: the items the digest renders, the count of its header
\* line and the count of its trailing line
DigestItems(new) == SubSeq(new, 1, IF Len(new) > DigestLimit THEN DigestLimit ELSE Len(new))

Digest(r, new) ==
    [run |-> r, count |-> Len(new), items |-> DigestItems(new),
     more |-> IF Len(new) > DigestLimit THEN Len(new) - DigestLimit ELSE 0]

\* ------------------------------------------------------------ actions
\* lines 111-123: a run of main() begins
Start(p) ==
    /\ pc[p] \in Resting
    /\ runNo < MaxRuns
    /\ runNo' = runNo + 1
    /\ pc' = [pc EXCEPT ![p] = "list"]
    /\ run' = [run EXCEPT ![p] = runNo + 1]
    /\ data' = [data EXCEPT ![p] = <<>>]
    /\ seen_keys' = [seen_keys EXCEPT ![p] = {}]
    /\ loaded' = [loaded EXCEPT ![p] = {}]
    /\ loadedFile' = [loadedFile EXCEPT ![p] = AbsentFile]
    /\ i' = [i EXCEPT ![p] = 1]
    /\ matched_items' = [matched_items EXCEPT ![p] = <<>>]
    /\ new_matched_items' = [new_matched_items EXCEPT ![p] = <<>>]
    /\ detail_calls' = [detail_calls EXCEPT ![p] = <<>>]
    /\ telegram' = [telegram EXCEPT ![p] = "none"]
    /\ line' = [line EXCEPT ![p] = "none"]
    /\ raised' = [raised EXCEPT ![p] = "none"]
    /\ startDisk' = [startDisk EXCEPT ![p] = disk]
    /\ overlapped' = (overlapped \/ \E q \in Procs \ {p} : pc[q] \notin Resting)
    /\ UNCHANGED <<fn, keywords, listing, disk, digests, prev, ledger0>>

\* lines 126-129: the listing call returns
FetchList(p) ==
    /\ pc[p] = "list"
    /\ data' = [data EXCEPT ![p] = listing]
    /\ pc' = [pc EXCEPT ![p] = "load"]
    /\ UNCHANGED <<aux, keywords, listing, disk, digests, runNo, prev, ledger0, run,
                   seen_keys, loaded, loadedFile, i, matched_items, new_matched_items,
                   detail_calls, telegram, line, raised, startDisk>>

\* variant: the exception of the listing call is swallowed and the run goes
\* on with an empty listing
ListFailsSwallowed(p) ==
    /\ pc[p] = "list"
    /\ raised' = [raised EXCEPT ![p] = "list"]
    /\ pc' = [pc EXCEPT ![p] = "load"]
    /\ UNCHANGED <<aux, keywords, listing, disk, digests, runNo, prev, ledger0, run, data,
                   seen_keys, loaded, loadedFile, i, matched_items, new_matched_items,
                   detail_calls, telegram, line, startDisk>>

\* line 127: http_post_json raises (transport error, HTTP status, bad JSON)
ListFails(p) ==
    /\ pc[p] = "list"
    /\ raised' = [raised EXCEPT ![p] = "list"]
    /\ pc' = [pc EXCEPT ![p] = "aborted"]
    /\ UNCHANGED <<aux, keywords, listing, disk, digests, runNo, prev, ledger0, run, data,
                   seen_keys, loaded, loadedFile, i, matched_items, new_matched_items,
                   detail_calls, telegram, line, startDisk>>

\* lines 131-135: the state file is read
LoadState(p) ==
    /\ pc[p] = "load"
    /\ ~LoadRaises(stateFile)
    /\ seen_keys' = [seen_keys EXCEPT ![p] = LoadedKeys(stateFile)]
    /\ loaded' = [loaded EXCEPT ![p] = LoadedKeys(stateFile)]
    /\ loadedFile' = [loadedFile EXCEPT ![p] = stateFile]
    /\ pc' = [pc EXCEPT ![p] = "loop"]
    /\ UNCHANGED <<aux, keywords, listing, disk, digests, runNo, prev, ledger0, run, data,
                   i, matched_items, new_matched_items, detail_calls, telegram, line,
                   raised, startDisk>>

\* lines 131-132 raise
LoadStateRaises(p) ==
    /\ pc[p] = "load"
    /\ LoadRaises(stateFile)
    /\ raised' = [raised EXCEPT ![p] = "state"]
    /\ pc' = [pc EXCEPT ![p] = "aborted"]
    /\ UNCHANGED <<aux, keywords, listing, disk, digests, runNo, prev, ledger0, run, data,
                   seen_keys, loaded, loadedFile, i, matched_items, new_matched_items,
                   detail_calls, telegram, line, startDisk>>

\* variant: the detail call is made before the hits are looked at, so for a
\* row that is then skipped as well
SkipRowFetching(p) ==
    /\ pc[p] = "loop"
    /\ i[p] <= Len(data[p])
    /\ ~Accepted(data[p][i[p]], keywords)
    /\ detail_calls' = [detail_calls EXCEPT ![p] = Append(@, i[p])]
    /\ i' = [i EXCEPT ![p] = i[p] + 1]
    /\ UNCHANGED <<aux, keywords, listing, disk, digests, runNo, prev, ledger0, pc, run,
                   data, seen_keys, loaded, loadedFile, matched_items,
                   new_matched_items, telegram, line, raised, startDisk>>

\* lines 139-156: one of the three continue statements
SkipRow(p) ==
    /\ pc[p] = "loop"
    /\ i[p] <= Len(data[p])
    /\ ~Accepted(data[p][i[p]], keywords)
    /\ i' = [i EXCEPT ![p] = i[p] + 1]
    /\ UNCHANGED <<aux, keywords, listing, disk, digests, runNo, prev, ledger0, pc, run,
                   data, seen_keys, loaded, loadedFile, matched_items,
                   new_matched_items, detail_calls, telegram, line, raised, startDisk>>

\* variant: the item is put at the front of both lists
MatchRowPrepending(p) ==
    /\ pc[p] = "loop"
    /\ i[p] <= Len(data[p])
    /\ Accepted(data[p][i[p]], keywords)
    /\ LET item == MakeItem(data[p][i[p]], i[p], keywords)
       IN /\ matched_items' = [matched_items EXCEPT ![p] = <<item>> \o @]
          /\ new_matched_items' =
                 [new_matched_items EXCEPT
                     ![p] = IF IsNew(item.key, SeenAtClassify(p)) THEN <<item>> \o @ ELSE @]
    /\ detail_calls' = [detail_calls EXCEPT ![p] = Append(@, i[p])]
    /\ i' = [i EXCEPT ![p] = i[p] + 1]
    /\ UNCHANGED <<aux, keywords, listing, disk, digests, runNo, prev, ledger0, pc, run,
                   data, seen_keys, loaded, loadedFile, telegram, line, raised,
                   startDisk>>

\* lines 158-178: the detail call returns and the item is appended
MatchRow(p) ==
    /\ pc[p] = "loop"
    /\ i[p] <= Len(data[p])
    /\ Accepted(data[p][i[p]], keywords)
    /\ LET item == MakeItem(data[p][i[p]], i[p], keywords)
       IN /\ matched_items' = [matched_items EXCEPT ![p] = Append(@, item)]
          /\ new_matched_items' =
                 [new_matched_items EXCEPT
                     ![p] = IF IsNew(item.key, SeenAtClassify(p)) THEN Append(@, item) ELSE @]
    /\ detail_calls' = [detail_calls EXCEPT ![p] = Append(@, i[p])]
    /\ i' = [i EXCEPT ![p] = i[p] + 1]
    /\ UNCHANGED <<aux, keywords, listing, disk, digests, runNo, prev, ledger0, pc, run,
                   data, seen_keys, loaded, loadedFile, telegram, line, raised,
                   startDisk>>

\* variant: the keys matched so far are saved before the exception of the
\* detail call leaves main()
DetailFailsCommitting(p) ==
    /\ pc[p] = "loop"
    /\ i[p] <= Len(data[p])
    /\ Accepted(data[p][i[p]], keywords)
    /\ detail_calls' = [detail_calls EXCEPT ![p] = Append(@, i[p])]
    /\ raised' = [raised EXCEPT ![p] = "detail"]
    /\ pc' = [pc EXCEPT ![p] = "aborted"]
    /\ stateFile' = LedgerDoc(MergeSeen(seen_keys[p], matched_items[p]))
    /\ UNCHANGED <<aux, keywords, listing, outJson, outCsv, digests, runNo, prev, ledger0,
                   run, data, seen_keys, loaded, loadedFile, i, matched_items,
                   new_matched_items, telegram, line, startDisk>>

\* line 161: the detail call raises
DetailFails(p) ==
    /\ pc[p] = "loop"
    /\ i[p] <= Len(data[p])
    /\ Accepted(data[p][i[p]], keywords)
    /\ detail_calls' = [detail_calls EXCEPT ![p] = Append(@, i[p])]
    /\ raised' = [raised EXCEPT ![p] = "detail"]
    /\ pc' = [pc EXCEPT ![p] = "aborted"]
    /\ UNCHANGED <<aux, keywords, listing, disk, digests, runNo, prev, ledger0, run, data,
                   seen_keys, loaded, loadedFile, i, matched_items, new_matched_items,
                   telegram, line, startDisk>>

\* variant: the state file is saved right after the merge and the outputs
\* are left out
UpdateSeenThenPersist(p) ==
    /\ pc[p] = "loop"
    /\ i[p] > Len(data[p])
    /\ seen_keys' = [seen_keys EXCEPT ![p] = MergeSeen(seen_keys[p], matched_items[p])]
    /\ pc' = [pc EXCEPT ![p] = "state_open"]
    /\ UNCHANGED <<aux, keywords, listing, disk, digests, runNo, prev, ledger0, run, data,
                   loaded, loadedFile, i, matched_items, new_matched_items,
                   detail_calls, telegram, line, raised, startDisk>>

\* lines 180-182: the loop is over, the matched keys join seen_keys
UpdateSeen(p) ==
    /\ pc[p] = "loop"
    /\ i[p] > Len(data[p])
    /\ seen_keys' = [seen_keys EXCEPT ![p] = MergeSeen(seen_keys[p], matched_items[p])]
    /\ pc' = [pc EXCEPT ![p] = "json_open"]
    /\ UNCHANGED <<aux, keywords, listing, disk, digests, runNo, prev, ledger0, run, data,
                   loaded, loadedFile, i, matched_items, new_matched_items,
                   detail_calls, telegram, line, raised, startDisk>>

\* lines 185, 74-75: save_json opens args.out_json for writing
OpenOutJson(p) ==
    /\ pc[p] = "json_open"
    /\ outJson' = [NoJson EXCEPT !.kind = "partial", !.run = run[p]]
    /\ pc' = [pc EXCEPT ![p] = "json_dump"]
    /\ UNCHANGED <<aux, keywords, listing, stateFile, outCsv, digests, runNo, prev, ledger0,
                   locals>>

\* lines 185-194, 76: the document is written and the file closed
DumpOutJson(p) ==
    /\ pc[p] = "json_dump"
    /\ outJson' = [kind |-> "doc", run |-> run[p], items |-> matched_items[p],
                   matched_count |-> Len(matched_items[p]),
                   new_matched_count |-> Len(new_matched_items[p])]
    /\ pc' = [pc EXCEPT ![p] = "csv_open"]
    /\ UNCHANGED <<aux, keywords, listing, stateFile, outCsv, digests, runNo, prev, ledger0,
                   locals>>

\* lines 214, 80-81: save_csv opens args.out_csv for writing
OpenOutCsv(p) ==
    /\ pc[p] = "csv_open"
    /\ outCsv' = [NoOutput EXCEPT !.kind = "partial", !.run = run[p]]
    /\ pc' = [pc EXCEPT ![p] = "csv_write"]
    /\ UNCHANGED <<aux, keywords, listing, stateFile, outJson, digests, runNo, prev, ledger0,
                   locals>>

\* variant: line 224 is missing, the notification follows the CSV
WriteOutCsvThenNotify(p) ==
    /\ pc[p] = "csv_write"
    /\ outCsv' = [kind |-> "doc", run |-> run[p],
                  items |-> [j \in 1..Len(matched_items[p]) |-> CsvRow(matched_items[p][j])]]
    /\ pc' = [pc EXCEPT ![p] = "notify"]
    /\ UNCHANGED <<aux, keywords, listing, stateFile, outJson, digests, runNo, prev, ledger0,
                   locals>>

\* lines 196-221, 82-85: header and rows are written and the file closed
WriteOutCsv(p) ==
    /\ pc[p] = "csv_write"
    /\ outCsv' = [kind |-> "doc", run |-> run[p],
                  items |-> [j \in 1..Len(matched_items[p]) |-> CsvRow(matched_items[p][j])]]
    /\ pc' = [pc EXCEPT ![p] = "state_open"]
    /\ UNCHANGED <<aux, keywords, listing, stateFile, outJson, digests, runNo, prev, ledger0,
                   locals>>

\* lines 224, 74-75: save_json opens args.state for writing, which truncates it
OpenState(p) ==
    /\ pc[p] = "state_open"
    /\ stateFile' = PartialFile
    /\ pc' = [pc EXCEPT ![p] = "state_dump"]
    /\ UNCHANGED <<aux, keywords, listing, outJson, outCsv, digests, runNo, prev, ledger0,
                   locals>>

\* lines 224, 76: the ledger document is written and the file closed
DumpState(p) ==
    /\ pc[p] = "state_dump"
    /\ stateFile' = LedgerDoc(seen_keys[p])
    /\ pc' = [pc EXCEPT ![p] = "notify"]
    /\ UNCHANGED <<aux, keywords, listing, outJson, outCsv, digests, runNo, prev, ledger0,
                   locals>>

\* variant: every matched item is notified
NotifyItemsAll(p) == matched_items[p]

\* lines 227-230: the list the notification is decided on and rendered from
NotifyItems(p) == new_matched_items[p]

\* line 227 is false
NothingNew(p) ==
    /\ pc[p] = "notify"
    /\ NotifyItems(p) = <<>>
    /\ pc' = [pc EXCEPT ![p] = "print"]
    /\ UNCHANGED <<aux, keywords, listing, disk, digests, runNo, prev, ledger0, locals>>

\* lines 227-240: the digest text is built
BuildDigest(p) ==
    /\ pc[p] = "notify"
    /\ NotifyItems(p) # <<>>
    /\ digests' = Append(digests, Digest(run[p], NotifyItems(p)))
    /\ pc' = [pc EXCEPT ![p] = "telegram"]
    /\ UNCHANGED <<aux, keywords, listing, disk, runNo, prev, ledger0, locals>>

\* variant: no try/except around the Telegram call, its exception leaves main()
TelegramNotifyUncaught(p) ==
    /\ pc[p] = "telegram"
    /\ \E outcome \in {"skipped", "sent", "failed"} :
           /\ telegram' = [telegram EXCEPT ![p] = outcome]
           /\ pc' = [pc EXCEPT ![p] = IF outcome = "failed" THEN "aborted" ELSE "line"]
           /\ raised' = [raised EXCEPT ![p] = IF outcome = "failed" THEN "notify" ELSE @]
    /\ UNCHANGED <<aux, keywords, listing, disk, digests, runNo, prev, ledger0, run, data,
                   seen_keys, loaded, loadedFile, i, matched_items, new_matched_items,
                   detail_calls, line, startDisk>>

\* lines 243-246, 88-92: no credentials, posted, or raised and caught
TelegramNotify(p) ==
    /\ pc[p] = "telegram"
    /\ \E outcome \in {"skipped", "sent", "failed"} :
           telegram' = [telegram EXCEPT ![p] = outcome]
    /\ pc' = [pc EXCEPT ![p] = "line"]
    /\ UNCHANGED <<aux, keywords, listing, disk, digests, runNo, prev, ledger0, run, data,
                   seen_keys, loaded, loadedFile, i, matched_items, new_matched_items,
                   detail_calls, line, raised, startDisk>>

\* lines 248-251, 95-102
LinePush(p) ==
    /\ pc[p] = "line"
    /\ \E outcome \in {"skipped", "sent", "failed"} :
           line' = [line EXCEPT ![p] = outcome]
    /\ pc' = [pc EXCEPT ![p] = "print"]
    /\ UNCHANGED <<aux, keywords, listing, disk, digests, runNo, prev, ledger0, run, data,
                   seen_keys, loaded, loadedFile, i, matched_items, new_matched_items,
                   detail_calls, telegram, raised, startDisk>>

\* line 253: main returns
PrintSummary(p) ==
    /\ pc[p] = "print"
    /\ prev' = [status |-> "done", data |-> data[p], keys |-> Keys(matched_items[p]),
                state |-> stateFile]
    /\ pc' = [pc EXCEPT ![p] = "done"]
    /\ UNCHANGED <<aux, keywords, listing, disk, digests, runNo, ledger0, locals>>

\* the process is killed (signal, power loss, job timeout) at any point of a
\* run: its memory is gone, the files stay as they are
Crash(p) ==
    /\ pc[p] \notin Resting
    /\ pc' = [pc EXCEPT ![p] = "crashed"]
    /\ data' = [data EXCEPT ![p] = <<>>]
    /\ seen_keys' = [seen_keys EXCEPT ![p] = {}]
    /\ loaded' = [loaded EXCEPT ![p] = {}]
    /\ loadedFile' = [loadedFile EXCEPT ![p] = AbsentFile]
    /\ i' = [i EXCEPT ![p] = 1]
    /\ matched_items' = [matched_items EXCEPT ![p] = <<>>]
    /\ new_matched_items' = [new_matched_items EXCEPT ![p] = <<>>]
    /\ detail_calls' = [detail_calls EXCEPT ![p] = <<>>]
    /\ telegram' = [telegram EXCEPT ![p] = "none"]
    /\ line' = [line EXCEPT ![p] = "none"]
    /\ UNCHANGED <<aux, keywords, listing, disk, digests, runNo, prev, ledger0, run, raised,
                   startDisk>>

Step(p) ==
    \/ Start(p)
    \/ FetchList(p)
    \/ ListFails(p)
    \/ LoadState(p)
    \/ LoadStateRaises(p)
    \/ SkipRow(p)
    \/ MatchRow(p)
    \/ DetailFails(p)
    \/ UpdateSeen(p)
    \/ OpenOutJson(p)
    \/ DumpOutJson(p)
    \/ OpenOutCsv(p)
    \/ WriteOutCsv(p)
    \/ OpenState(p)
    \/ DumpState(p)
    \/ NothingNew(p)
    \/ BuildDigest(p)
    \/ TelegramNotify(p)
    \/ LinePush(p)
    \/ PrintSummary(p)
    \/ Crash(p)

\* runs that never overlap: the scheduled job, one run after the other
Next == Step(1)

Spec == Init /\ [][Next]_vars

\* ------------------------------------------------- runs that may overlap
\* the rows the upstream listing can gain
PublishedRows == {RowLong, RowNoHit}

\* line 127 answers with the listing of the moment: upstream publishes one
\* more announcement between two calls
Publish ==
    /\ Len(listing) < MaxRows
    /\ \E row \in PublishedRows : listing' = Append(listing, row)
    /\ UNCHANGED <<aux, keywords, disk, digests, runNo, prev, ledger0, pc, locals>>

\* a first deployment: no state file yet, both keywords configured, one
\* announcement with a hit upstream
InitRace ==
    /\ Init
    /\ keywords = <<"a b", "b">>
    /\ listing = <<RowA>>
    /\ stateFile = AbsentFile

\* two job instances on the same files, nothing keeps them apart
NextRace == Publish \/ \E p \in Procs : Step(p)

SpecRace == InitRace /\ [][NextRace]_vars

\* ---------------------------- runs one after the other, upstream moving on
\* any keyword list and any initial state file, at most one announcement
\* upstream when the first run begins
InitSeq ==
    /\ Init
    /\ Len(listing) <= 1

\* the scheduled job again, and announcements published between its steps
NextSeq == Publish \/ Step(1)

SpecSeq == InitSeq /\ [][NextSeq]_vars

\* ------------------------------------------- pure functions on their own
\* the four fields build_item_key reads, and a field it does not read
KeyFields == {"enterDate", "marketKind", "companyId", "serialNumber"}
OtherField == "apiKind"

\* the marker of a field the mapping does not have
Absent == "<absent>"

\* what each field of a params mapping is drawn from: a missing field, plain
\* text, text that holds the delimiter, the text "None"
FieldChoices ==
    [enterDate |-> {Absent, "1", "1|1", "None"},
     marketKind |-> {Absent, "1", "1|1", "None"},
     companyId |-> {Absent, "1"},
     serialNumber |-> {Absent, "1"},
     apiKind |-> {Absent, "1"}]

\* the params mapping of a choice c: the fields c does not mark absent
ParamsFrom(c) ==
    PyDict([k \in {f \in DOMAIN c : c[f] # Absent} |-> PyStr(c[k])])

ParamsUniverse ==
    {ParamsFrom(c) :
        c \in {g \in [KeyFields \cup {OtherField} -> {Absent, "1", "1|1", "None"}] :
                  \A f \in DOMAIN g : g[f] \in FieldChoices[f]}}

\* lines 105-107 applied to two params mappings
CallBuildKey ==
    /\ fn = NoCall
    /\ \E a \in ParamsUniverse, b \in ParamsUniverse :
           fn' = [op |-> "build_item_key", a |-> a, b |-> b,
                  ka |-> build_item_key(a), kb |-> build_item_key(b)]
    /\ UNCHANGED <<keywords, listing, disk, digests, runNo, prev, ledger0, pc, locals,
                   overlapped>>

\* every text of at most n characters of C
RECURSIVE Texts(_, _)
Texts(C, n) ==
    IF n = 0 THEN {""}
    ELSE LET T == Texts(C, n - 1) IN T \cup {t \o c : t \in T, c \in C}

Subjects == Texts({"a", "b", " ", "\n"}, MaxSubject)

\* keyword lists as load_keywords returns them: no empty keyword, longest first
KeywordPool == {"a", "b", "ab", "a b"}
KeywordListsFn ==
    {K \in UNION {[1..n -> KeywordPool] : n \in 0..MaxKeywords} :
        \A j \in 1..(Len(K) - 1) : Len(K[j]) >= Len(K[j + 1])}

\* lines 146-156, 170 applied to one row with subject s under keywords K:
\* the hits the item records, and whether the row passes line 155
CallMatch ==
    /\ fn = NoCall
    /\ \E s \in Subjects, K \in KeywordListsFn :
           LET row == ListRow(s, Meta(Params1))
           IN fn' = [op |-> "match_keywords", s |-> s, k |-> K,
                     hits |-> MakeItem(row, 1, K).matched_keywords,
                     matched |-> Accepted(row, K)]
    /\ UNCHANGED <<keywords, listing, disk, digests, runNo, prev, ledger0, pc, locals,
                   overlapped>>

\* key sets to save: keys build_item_key gives, the empty text, short texts
KeyPool == {"1|a|1|1", "1|a|1|2", "None|None|None|None", "1|1|1|1|1", "", "a", "N"}
KeySets == {X \in SUBSET KeyPool : Cardinality(X) <= MaxKeys}

\* line 224 then lines 131-132: a key set is saved and the file loaded again
CallSaveLoad ==
    /\ fn = NoCall
    /\ \E X \in KeySets :
           fn' = [op |-> "save_load", x |-> X, file |-> LedgerDoc(X),
                  raises |-> LoadRaises(LedgerDoc(X)),
                  back |-> LoadedKeys(LedgerDoc(X))]
    /\ UNCHANGED <<keywords, listing, disk, digests, runNo, prev, ledger0, pc, locals,
                   overlapped>>

\* the pure functions applied on their own, no run of main()
InitFn ==
    /\ Init
    /\ keywords = <<>>
    /\ listing = <<>>
    /\ stateFile = AbsentFile

NextFn == CallBuildKey \/ CallMatch \/ CallSaveLoad

SpecFn == InitFn /\ [][NextFn]_vars

\* ------------------------------------------------------------- claims
\* positions of main() after the row loop and before it returns
AfterLoop ==
    {"json_open", "json_dump", "csv_open", "csv_write", "state_open", "state_dump",
     "notify", "telegram", "line", "print"}

\* the rows of data that matched_items holds an item of
Srcs(items) == {items[j].src : j \in 1..Len(items)}

\* the keys of every digest, in the order they were rendered
RECURSIVE DigestKeys(_)
DigestKeys(ds) ==
    IF ds = <<>> THEN <<>> ELSE Keys(Head(ds).items) \o DigestKeys(Tail(ds))

Count(k, q) == Cardinality({j \in 1..Len(q) : q[j] = k})

RunDigests(p) == {j \in 1..Len(digests) : digests[j].run = run[p]}

\* C1: a run that follows a completed run on the same listing, and loads the
\* ledger as that run saved it, classifies nothing as new and matches the
\* same keys in the same order.
C1_Idempotent ==
    \A p \in Procs :
        (/\ pc[p] \in AfterLoop
         /\ prev.status = "done"
         /\ data[p] = prev.data
         /\ loadedFile[p] = prev.state)
        => /\ new_matched_items[p] = <<>>
           /\ Keys(matched_items[p]) = prev.keys

\* a second run over the same listing that matched again an item the first
\* run had notified
C1_Witness ==
    \E p \in Procs :
        /\ pc[p] = "print"
        /\ prev.status = "done"
        /\ data[p] = prev.data
        /\ loadedFile[p] = prev.state
        /\ matched_items[p] # <<>>
        /\ digests # <<>>

\* C2: every matched key is handed to the notifier exactly once: no key is in
\* the digests twice (in one digest or in the digests of two runs), and once
\* no run is active every key the runs added to the persisted ledger is in a
\* digest.
C2_ExactlyOnce ==
    /\ \A k \in SeqToSet(DigestKeys(digests)) : Count(k, DigestKeys(digests)) = 1
    /\ (\A p \in Procs : pc[p] \in Resting)
        => \A k \in FileKeys(stateFile) \ ledger0 : Count(k, DigestKeys(digests)) = 1

\* C3: from the row loop on, new_matched_items is the subsequence of
\* matched_items whose key is not in the ledger as loaded; rows matched
\* earlier in the run do not count as seen.
C3_LoadTimeSnapshot ==
    \A p \in Procs :
        pc[p] \in AfterLoop \cup {"loop", "done"}
        => new_matched_items[p] =
               SelectSeq(matched_items[p], LAMBDA it : it.key \notin loaded[p])

\* two rows of one listing with the same unseen key, both classified as new
C3_Witness ==
    \E p \in Procs :
        /\ pc[p] \in AfterLoop
        /\ Len(new_matched_items[p]) >= 2
        /\ new_matched_items[p][1].key = new_matched_items[p][2].key
        /\ new_matched_items[p][1].key \notin loaded[p]

\* C4: when the notification step is over, the run has built a digest and
\* called telegram_notify and line_push with it iff new_matched_items is not
\* empty, the digest renders items of new_matched_items only, and every item
\* whose key was in the loaded ledger is in the JSON and CSV outputs and in
\* the saved ledger but in no digest of the run.
C4_NotifyOnlyNew ==
    \A p \in Procs :
        pc[p] \in {"print", "done"}
        => /\ (RunDigests(p) # {}) <=> (new_matched_items[p] # <<>>)
           /\ (telegram[p] # "none") <=> (new_matched_items[p] # <<>>)
           /\ (line[p] # "none") <=> (new_matched_items[p] # <<>>)
           /\ \A j \in RunDigests(p) :
                  SeqToSet(digests[j].items) \subseteq SeqToSet(new_matched_items[p])
           /\ \A n \in 1..Len(matched_items[p]) :
                  LET it == matched_items[p][n]
                  IN it.key \in loaded[p]
                     => /\ it \in SeqToSet(outJson.items)
                        /\ CsvRow(it) \in SeqToSet(outCsv.items)
                        /\ it.key \in FileKeys(stateFile)
                        /\ \A j \in RunDigests(p) : it \notin SeqToSet(digests[j].items)

\* a completed run with a digest and with a matched item that was already seen
C4_Witness ==
    \E p \in Procs :
        /\ pc[p] = "done"
        /\ RunDigests(p) # {}
        /\ \E n \in 1..Len(matched_items[p]) : matched_items[p][n].key \in loaded[p]

\* C5: when a run has saved the state file and when it has completed, the
\* file holds exactly the keys loaded at the start of the run and the keys of
\* all matched items; it holds every key the file had when the run started
\* and every key it had before the first run.
C5_LedgerUnion ==
    \A p \in Procs :
        pc[p] \in {"notify", "telegram", "line", "print", "done"}
        => /\ stateFile.kind = "ledger"
           /\ FileKeys(stateFile) = loaded[p] \cup SeqToSet(Keys(matched_items[p]))
           /\ FileKeys(startDisk[p][1]) \subseteq FileKeys(stateFile)
           /\ ledger0 \subseteq FileKeys(stateFile)

\* a completed run that loaded a key and matched a key it had not loaded
C5_Witness ==
    \E p \in Procs :
        /\ pc[p] = "done"
        /\ loaded[p] # {}
        /\ SeqToSet(Keys(matched_items[p])) \ loaded[p] # {}
        /\ SeqToSet(Keys(matched_items[p])) \cap loaded[p] # {}

\* C6: after a crash the state file is the file the run started with or a
\* complete ledger document, never a partially written one.
C6_CrashSafe ==
    \A p \in Procs :
        pc[p] = "crashed"
        => \/ stateFile = startDisk[p][1]
           \/ stateFile.kind = "ledger"

\* the state file exists and is not a document with the one field seen_keys
Corrupt(file) == file.kind \notin {"absent", "ledger"}

\* C7: a run never gets past the load of a state file that exists and is not
\* the expected structure.
C7_CorruptFatal ==
    \A p \in Procs :
        pc[p] \in AfterLoop \cup {"loop", "done"} => ~Corrupt(loadedFile[p])

\* C8: a run whose listing call raised has ended, the JSON output, the CSV
\* output and the state file are as they were when it started, and it has
\* built no digest and attempted no channel.
C8_ListFailureFatal ==
    \A p \in Procs :
        raised[p] = "list"
        => /\ pc[p] = "aborted"
           /\ disk = startDisk[p]
           /\ RunDigests(p) = {}
           /\ telegram[p] = "none"
           /\ line[p] = "none"

\* the listing call of a later run raised: the files of the earlier run stay
C8_Witness ==
    \E p \in Procs :
        /\ raised[p] = "list"
        /\ stateFile.kind = "ledger"
        /\ outJson.kind = "doc"
        /\ outCsv.kind = "doc"

\* a row of the record layout whose sixth field is not a mapping, or has no
\* mapping under "parameters"
MalformedParams(row) ==
    /\ row.isList
    /\ Len(row.f) >= RowFields
    /\ \/ ~IsDict(row.f[6])
       \/ "parameters" \notin DOMAIN row.f[6].d
       \/ ~IsDict(row.f[6].d["parameters"])

\* C9: a row whose detailParams is not a well-formed mapping never appears in
\* matched_items and causes no detail call.
C9_MalformedParamsSkipped ==
    \A p \in Procs :
        \A j \in 1..Len(data[p]) :
            MalformedParams(data[p][j])
            => /\ j \notin Srcs(matched_items[p])
               /\ j \notin SeqToSet(detail_calls[p])

\* C10 as claimed: a row that is not a list or does not have exactly the six
\* fields of the layout never appears in matched_items.
C10_FixedArity ==
    \A p \in Procs :
        \A j \in 1..Len(data[p]) :
            (~data[p][j].isList \/ Len(data[p][j].f) # RowFields)
            => j \notin Srcs(matched_items[p])

\* C10 as amended: a row that is not a list or has fewer than six fields
\* never appears in matched_items and is not the row a run aborted at, and
\* once the loop is over every row of at least six fields with a mapping as
\* parameters and a keyword hit has its item in matched_items.
C10_ShortRowsSkipped ==
    \A p \in Procs :
        /\ \A j \in 1..Len(data[p]) :
               (~data[p][j].isList \/ Len(data[p][j].f) < RowFields)
               => /\ j \notin Srcs(matched_items[p])
                  /\ ~(raised[p] = "detail" /\ i[p] = j)
        /\ pc[p] \in AfterLoop
            => \A j \in 1..Len(data[p]) :
                   (/\ data[p][j].isList
                    /\ Len(data[p][j].f) >= RowFields
                    /\ IsDict(ParamsOf(data[p][j]))
                    /\ match_keywords(Subject(data[p][j]), keywords) # <<>>)
                   => j \in Srcs(matched_items[p])

\* a completed run that skipped a short or non-list row and matched the row
\* after it
C10_Witness ==
    \E p \in Procs :
        /\ pc[p] = "done"
        /\ Len(data[p]) >= 2
        /\ ~data[p][1].isList \/ Len(data[p][1].f) < RowFields
        /\ 2 \in Srcs(matched_items[p])

\* two params mappings equal on the four key fields: each field is missing in
\* both or present with the same value in both
SameKeyFields(a, b) ==
    \A f \in KeyFields :
        /\ (f \in DOMAIN a.d) <=> (f \in DOMAIN b.d)
        /\ f \in DOMAIN a.d => a.d[f] = b.d[f]

\* C11: build_item_key gives params mappings equal on enterDate, marketKind,
\* companyId and serialNumber the same key, and params mappings that differ
\* on one of the four (a field missing in one only, or another value) other
\* keys.
C11_KeyInjective ==
    fn.op = "build_item_key"
    => /\ SameKeyFields(fn.a, fn.b) => fn.ka = fn.kb
       /\ ~SameKeyFields(fn.a, fn.b) => fn.ka # fn.kb

\* k is a substring of s: s is some text, then k, then some text
IsSubstring(k, s) ==
    \E u \in 0..Len(s), w \in 0..Len(s) :
        /\ u + Len(k) + w = Len(s)
        /\ s = SubSeq(s, 1, u) \o k \o SubSeq(s, Len(s) - w + 1, Len(s))

\* C12: the hits recorded for a row are the keywords, in the order of the
\* keyword list, that are substrings of the whitespace-normalized subject,
\* all of them and no other; the row is matched iff there is one, so never
\* under an empty keyword list.
C12_MatchExact ==
    fn.op = "match_keywords"
    => LET expected ==
               SelectSeq(fn.k, LAMBDA k : IsSubstring(k, normalize_text(fn.s)))
       IN /\ fn.hits = expected
          /\ fn.matched <=> (expected # <<>>)
          /\ fn.k = <<>> => ~fn.matched

\* a subject that has two of the keywords only once its line break is
\* normalized, and both are recorded in keyword order
C12_Witness ==
    /\ fn.op = "match_keywords"
    /\ fn.s = "a\nb"
    /\ fn.k = <<"a b", "b">>
    /\ fn.hits = <<"a b", "b">>

\* C13: saving a set of key strings and loading the file again gives the same
\* set; the file holds the keys as a strictly increasing sequence (sorted, no
\* key lost, added or twice) under seen_keys, and loads without raising.
C13_RoundTrip ==
    fn.op = "save_load"
    => /\ ~fn.raises
       /\ fn.back = fn.x
       /\ fn.file.kind = "ledger"
       /\ SeqToSet(fn.file.keys) = fn.x
       /\ Len(fn.file.keys) = Cardinality(fn.x)
       /\ \A j \in 1..(Len(fn.file.keys) - 1) :
              StrLess(fn.file.keys[j], fn.file.keys[j + 1])

\* a set of three keys, one a prefix of another, saved and loaded
C13_Witness ==
    /\ fn.op = "save_load"
    /\ fn.x = {"1|1|1|1|1", "", "None|None|None|None"}
    /\ fn.back = fn.x

\* what a channel call can end in
Outcomes == {"skipped", "sent", "failed"}

\* C14: whatever the Telegram call ends in (skipped for want of credentials,
\* sent, or raised), the LINE call is attempted next, and whatever that ends
\* in, main() goes on to its summary line and returns; a failed channel never
\* leaves the run aborted, and a run that returned with something new has
\* attempted both channels.
C14_ChannelsIndependent ==
    \A p \in Procs :
        /\ pc[p] = "line" => telegram[p] \in Outcomes /\ line[p] = "none"
        /\ (pc[p] \in {"print", "done"} /\ new_matched_items[p] # <<>>)
           => telegram[p] \in Outcomes /\ line[p] \in Outcomes
        /\ (telegram[p] # "none" \/ line[p] # "none")
           => raised[p] = "none" /\ pc[p] \in {"line", "print", "done"}

\* a run that returned although both channels raised
C14_Witness ==
    /\ pc[1] = "done"
    /\ telegram[1] = "failed"
    /\ line[1] = "failed"

\* C15: once the detail call has raised, the run is over and has committed
\* nothing, whatever rows it had fetched before: the three files are as they
\* were when the run began, no digest of this run exists, no channel was
\* attempted, and the keys it had found new are still new against the state
\* file as it stands.
C15_DetailFailureAborts ==
    \A p \in Procs :
        raised[p] = "detail"
        => /\ pc[p] = "aborted"
           /\ disk = startDisk[p]
           /\ RunDigests(p) = {}
           /\ telegram[p] = "none" /\ line[p] = "none"
           /\ ~LoadRaises(stateFile)
           /\ \A j \in 1..Len(new_matched_items[p]) :
                  IsNew(new_matched_items[p][j].key, LoadedKeys(stateFile))

\* the detail call raised on the second matched row, after the first row's
\* detail had been fetched and the row classified as new
C15_Witness ==
    /\ raised[1] = "detail"
    /\ Len(new_matched_items[1]) = 1
    /\ detail_calls[1] = <<1, 2>>

\* C16: row j of the listing has had the detail call made for it exactly once
\* if the loop has reached it and it is an accepted row with a keyword hit,
\* and never otherwise; after the loop the number of calls is the length of
\* matched_items.
C16_DetailCallsBounded ==
    \A p \in Procs :
        pc[p] \notin {"idle", "crashed"}
        => /\ \A j \in 1..Len(data[p]) :
                  Count(j, detail_calls[p]) =
                      IF /\ Accepted(data[p][j], keywords)
                         /\ (j < i[p] \/ (j = i[p] /\ raised[p] = "detail"))
                      THEN 1 ELSE 0
           /\ \A c \in 1..Len(detail_calls[p]) : detail_calls[p][c] \in 1..Len(data[p])
           /\ pc[p] \in AfterLoop \cup {"done"}
              => Len(detail_calls[p]) = Len(matched_items[p])

\* a completed run over two rows, one with a hit and one without: one call
C16_Witness ==
    /\ pc[1] = "done"
    /\ Len(data[1]) = 2
    /\ ~Accepted(data[1][1], keywords)
    /\ detail_calls[1] = <<2>>
    /\ Len(matched_items[1]) = 1

\* positions of main() from the end of the row loop to its return
PastLoop == AfterLoop \cup {"done"}

\* C17 as stated: whenever this run has written to an output file or built
\* its digest, the state file already holds every key this run matched.
C17_PersistBeforeOutputs ==
    \A p \in Procs :
        (/\ pc[p] \in PastLoop
         /\ (outJson.run = run[p] \/ outCsv.run = run[p] \/ RunDigests(p) # {}))
        => SeqToSet(Keys(matched_items[p])) \subseteq FileKeys(stateFile)

\* C17 as the code orders the steps: the matched keys are merged into the
\* in-memory seen_keys before any output is written; the JSON and CSV outputs
\* are written while the state file is still as the run found it; the state
\* file is opened for writing only once both outputs are complete; and the
\* digest is built only once the state file holds every key this run matched.
C17_OutputsThenPersistThenDigest ==
    \A p \in Procs :
        pc[p] \in PastLoop
        => /\ SeqToSet(Keys(matched_items[p])) \subseteq seen_keys[p]
           /\ pc[p] \in {"json_open", "json_dump", "csv_open", "csv_write", "state_open"}
              => stateFile = startDisk[p][1] /\ RunDigests(p) = {}
           /\ pc[p] \in {"state_dump", "notify", "telegram", "line", "print", "done"}
              => /\ outJson.kind = "doc" /\ outJson.run = run[p]
                 /\ outCsv.kind = "doc" /\ outCsv.run = run[p]
           /\ RunDigests(p) # {}
              => /\ stateFile = LedgerDoc(seen_keys[p])
                 /\ SeqToSet(Keys(matched_items[p])) \subseteq FileKeys(stateFile)

\* both outputs of this run are complete, with one matched item, and the
\* state file is still absent
C17_Witness ==
    /\ pc[1] = "state_open"
    /\ outJson.kind = "doc" /\ outJson.run = run[1]
    /\ outCsv.kind = "doc" /\ outCsv.run = run[1]
    /\ Len(matched_items[1]) = 1
    /\ stateFile = AbsentFile

\* the items of a list come from rows of strictly increasing position
InListingOrder(items) ==
    \A a \in 1..Len(items), b \in 1..Len(items) : a < b => items[a].src < items[b].src

\* C18: matched_items and new_matched_items hold their items in the order of
\* the rows they were made from (each item is the one made from its row, and
\* row positions strictly increase along the list), every new item is one of
\* the matched items, and the JSON items and CSV rows this run wrote are the
\* matched items in that same order.
C18_OrderPreserved ==
    \A p \in Procs :
        pc[p] \notin {"idle", "crashed"}
        => /\ InListingOrder(matched_items[p])
           /\ InListingOrder(new_matched_items[p])
           /\ \A j \in 1..Len(matched_items[p]) :
                  LET it == matched_items[p][j]
                  IN /\ it.src \in 1..Len(data[p])
                     /\ it = MakeItem(data[p][it.src], it.src, keywords)
           /\ SeqToSet(new_matched_items[p]) \subseteq SeqToSet(matched_items[p])
           /\ (pc[p] \in PastLoop /\ outJson.kind = "doc" /\ outJson.run = run[p])
              => outJson.items = matched_items[p]
           /\ (pc[p] \in PastLoop /\ outCsv.kind = "doc" /\ outCsv.run = run[p])
              => /\ Len(outCsv.items) = Len(matched_items[p])
                 /\ \A j \in 1..Len(outCsv.items) :
                        outCsv.items[j] = CsvRow(matched_items[p][j])

\* a completed run over two matching rows with different keys: items, JSON
\* items and CSV rows all in the order of the two rows
C18_Witness ==
    /\ pc[1] = "done"
    /\ Len(matched_items[1]) = 2
    /\ Len(new_matched_items[1]) = 2
    /\ matched_items[1][1].key # matched_items[1][2].key
    /\ outJson.items = matched_items[1]
    /\ outCsv.items[1].key = matched_items[1][1].key
    /\ outCsv.items[2].key = matched_items[1][2].key

\* the keys the digests of run r name
KeysOfRun(r) ==
    UNION {SeqToSet(Keys(digests[j].items)) : j \in {k \in 1..Len(digests) : digests[k].run = r}}

\* C20: from the moment a run has built its digest and while it attempts the
\* channels, the state file is a ledger holding every key this run matched,
\* so every key the digest names; and over runs that do not overlap no key is
\* named by the digests of two different runs, whatever the channels ended in.
C20_PersistBeforeNotify ==
    /\ \A p \in Procs :
           pc[p] \in {"telegram", "line", "print"} /\ RunDigests(p) # {}
           => /\ stateFile.kind = "ledger"
              /\ SeqToSet(Keys(matched_items[p])) \subseteq FileKeys(stateFile)
              /\ KeysOfRun(run[p]) \subseteq FileKeys(stateFile)
    /\ \A r1 \in 1..runNo, r2 \in 1..runNo :
           r1 # r2 => KeysOfRun(r1) \cap KeysOfRun(r2) = {}

\* the second run is attempting LINE after Telegram raised; its digest names
\* the key of a row published after the first run, the state file already
\* holds it, and the first run's digest named the key of the first row, which
\* the second run matched again
C20_Witness ==
    /\ run[1] = 2
    /\ pc[1] = "line"
    /\ telegram[1] = "failed"
    /\ KeysOfRun(2) # {}
    /\ KeysOfRun(2) \subseteq FileKeys(stateFile)
    /\ KeysOfRun(1) # {}
    /\ KeysOfRun(1) \subseteq SeqToSet(Keys(matched_items[1]))

\* a key is named by the digests of two different runs
NotifiedTwice ==
    \E r1 \in 1..runNo, r2 \in 1..runNo :
        r1 # r2 /\ KeysOfRun(r1) \cap KeysOfRun(r2) # {}

\* no run is under way, the state file is a complete ledger, and it lacks a
\* key that a run which returned had merged into its seen_keys
LostUpdate ==
    /\ \A p \in Procs : pc[p] \in Resting
    /\ stateFile.kind = "ledger"
    /\ \E p \in Procs : pc[p] = "done" /\ ~(seen_keys[p] \subseteq FileKeys(stateFile))

\* C19: a key notified by two runs, and a persisted ledger that lacks a key a
\* completed run had merged, both come about with two runs of main() on the
\* same state file (the witness), and only when runs have overlapped: runs
\* that follow one another never produce either.
C19_RaceNeedsOverlap == (NotifiedTwice \/ LostUpdate) => overlapped

\* both runs loaded the absent ledger before either saved; both returned;
\* the key of the first row is in both digests, and the run that saved last
\* overwrote the ledger without the key of the row only the other run saw
C19_Witness ==
    /\ pc = <<"done", "done">>
    /\ loadedFile = <<AbsentFile, AbsentFile>>
    /\ NotifiedTwice
    /\ LostUpdate

====
